---- MODULE Spec2Model ----
(***************************************************************************)
(* StoriLite (PhotoVault starter): the import/compress pipeline, the       *)
(* catalog (asset, index_terms) and the read path (simpleQuery, the CLI    *)
(* query command, GET /api/assets).                                        *)
(*                                                                         *)
(* Text is modelled as sequences of one-character strings, byte buffers as *)
(* named blobs with a length, time stamps as ticks of a scaled calendar.   *)
(***************************************************************************)
EXTENDS Integers, Sequences, FiniteSets, Bags, TLC

(***************************************************************************)
(* Bounds of the model.                                                    *)
(***************************************************************************)
\* imports started in a behaviour
MaxImports == 2

\* steps the environment makes fail in a behaviour
MaxFaults == 1

\* imports that can be live at the same time
MaxSlots == 2

Runs == 1..MaxSlots

NULL == "NULL"

(***************************************************************************)
(* Text helpers.                                                           *)
(***************************************************************************)
UpperOf == [c \in {"a", "g", "j", "p"} |->
              CASE c = "a" -> "A" [] c = "g" -> "G" [] c = "j" -> "J" [] c = "p" -> "P"]

\* String.prototype.toLowerCase on one character
LowerChar(c) == IF \E l \in DOMAIN UpperOf : UpperOf[l] = c
                THEN CHOOSE l \in DOMAIN UpperOf : UpperOf[l] = c
                ELSE c

toLowerCase(s) == [k \in 1..Len(s) |-> LowerChar(s[k])]

\* s ends with suffix t
EndsWith(s, t) == /\ Len(t) <= Len(s)
                  /\ SubSeq(s, Len(s) - Len(t) + 1, Len(s)) = t

\* t occurs in s as a contiguous substring
Contains(s, t) == \E k \in 0..(Len(s) - Len(t)) : SubSeq(s, k + 1, k + Len(t)) = t

DigitChar == <<"0", "1", "2", "3", "4", "5", "6", "7", "8", "9">>

RECURSIVE Digits(_)
\* String(n) for n >= 0
Digits(n) == IF n < 10 THEN <<DigitChar[n + 1]>>
             ELSE Digits(n \div 10) \o <<DigitChar[(n % 10) + 1]>>

\* s.slice(-k)
SliceLast(s, k) == IF Len(s) <= k THEN s ELSE SubSeq(s, Len(s) - k + 1, Len(s))

RECURSIVE padStart(_, _, _)
\* s.padStart(n, c)
padStart(s, n, c) == IF Len(s) >= n THEN s ELSE padStart(<<c>> \o s, n, c)

(***************************************************************************)
(* File classification by extension (case-insensitive regular              *)
(* expressions anchored at the end of the path).                           *)
(***************************************************************************)
ImageExts == { <<".", "j", "p", "g">>, <<".", "j", "p", "e", "g">>,
               <<".", "p", "n", "g">>, <<".", "w", "e", "b", "p">>,
               <<".", "h", "e", "i", "c">>, <<".", "a", "v", "i", "f">> }

VideoExts == { <<".", "m", "p", "4">>, <<".", "m", "o", "v">>, <<".", "m", "4", "v">> }

isImage(file) == \E e \in ImageExts : EndsWith(toLowerCase(file), e)

\* Everything that is not an image is taken for a video.
isVideo_Else(file) == ~isImage(file)

isVideo(file) == \E e \in VideoExts : EndsWith(toLowerCase(file), e)

(***************************************************************************)
(* Calendar: a time stamp counts ticks; TicksPerMonth ticks make a month,  *)
(* twelve months a year, tick 0 is January 1970.                           *)
(***************************************************************************)
TicksPerMonth == 2

getFullYear(ts) == 1970 + ((ts \div TicksPerMonth) \div 12)

getMonth(ts) == (ts \div TicksPerMonth) % 12

\* yymmDir: <base>/<last two digits of the year>/<month, two digits>
yymmDir(base, ts) ==
    <<base, SliceLast(Digits(getFullYear(ts)), 2), padStart(Digits(getMonth(ts) + 1), 2, "0")>>

(***************************************************************************)
(* Content identifier: the first 16 hex characters of the SHA-256 digest   *)
(* of the buffer.  The digest is tabulated for the blobs of the model.     *)
(***************************************************************************)
Blobs == {"imgA", "imgB", "vidC", "txtD"}

\* The buffers a digest is tabulated for: the blobs and the empty buffer.
Buffers == Blobs \cup {"empty"}

\* crypto.createHash('sha256').update(buf).digest(): the leading bytes of
\* the 32-byte digest (the digest of the empty buffer starts e3 b0 c4 42).
Sha256 == [b \in Buffers |->
    CASE b = "imgA"  -> <<126, 227, 7, 115, 177, 16, 103, 23, 4, 250>>
      [] b = "imgB"  -> <<211, 137, 89, 191, 76, 228, 110, 176, 61, 9>>
      [] b = "vidC"  -> <<139, 171, 50, 76, 14, 200, 199, 222, 160, 33>>
      [] b = "txtD"  -> <<34, 29, 211, 224, 209, 9, 167, 227, 18, 77>>
      [] b = "empty" -> <<227, 176, 196, 66, 152, 252, 28, 20, 154, 251>>]

HexDigit == <<"0", "1", "2", "3", "4", "5", "6", "7", "8", "9",
              "a", "b", "c", "d", "e", "f">>

\* An encoding with capital digits.
HexDigitUpper == <<"0", "1", "2", "3", "4", "5", "6", "7", "8", "9",
                   "A", "B", "C", "D", "E", "F">>

RECURSIVE hex_Upper(_)
hex_Upper(bytes) ==
    IF bytes = <<>> THEN <<>>
    ELSE <<HexDigitUpper[(bytes[1] \div 16) + 1], HexDigitUpper[(bytes[1] % 16) + 1]>>
         \o hex_Upper(Tail(bytes))

RECURSIVE hex(_)
\* .digest('hex'): two lowercase hexadecimal digits for every byte
hex(bytes) ==
    IF bytes = <<>> THEN <<>>
    ELSE <<HexDigit[(bytes[1] \div 16) + 1], HexDigit[(bytes[1] % 16) + 1]>>
         \o hex(Tail(bytes))

\* String.prototype.slice(a, b) for 0 <= a <= b
slice(s, a, b) == SubSeq(s, a + 1, IF b < Len(s) THEN b ELSE Len(s))

RECURSIVE Join(_)
\* the string spelled by a sequence of characters
Join(cs) == IF cs = <<>> THEN "" ELSE cs[1] \o Join(Tail(cs))

\* .digest('hex').slice(0, 16) of a digest
idOfDigest(digest) == slice(hex(digest), 0, 16)

\* the characters of idFromBuffer(buf)
IdChars == [b \in Buffers |-> idOfDigest(Sha256[b])]

Sha256Hex16 == [b \in Buffers |-> Join(IdChars[b])]

idFromBuffer(buf) == Sha256Hex16[buf]

\* const ID_REGEX = /^[a-f0-9]{16}$/
ID_REGEX_test(cs) == Len(cs) = 16 /\ \A k \in 1..Len(cs) : \E d \in 1..16 : cs[k] = HexDigit[d]

\* Any string of any length passes.
isValidId_Any(cs) == TRUE

isValidId(cs) == ID_REGEX_test(cs)

\* buf.length
BufLen == [b \in Blobs |-> 100]

(***************************************************************************)
(* The files of the model.  A file has a name (its base name; all files    *)
(* sit directly in the scanned folder), content and a modification time.   *)
(***************************************************************************)
TickOf(year, month) == ((year - 1970) * 12 + (month - 1)) * TicksPerMonth

Dec2023 == TickOf(2023, 12)

Jan2024 == TickOf(2024, 1) + 1

Jun2022 == TickOf(2022, 6)

NameA == <<"a", ".", "j", "p", "g">>

NameB == <<"b", ".", "J", "P", "G">>

NameC == <<"c", ".", "m", "p", "4">>

NameN == <<"n", ".", "t", "x", "t">>

\* The order in which fast-glob delivers the entries of a folder: the
\* directory order, here the order of the names.
NameOrder == <<NameA, NameB, NameC, NameN>>

Names == {NameOrder[k] : k \in 1..Len(NameOrder)}

\* The folder given to the CLI import (name -> [bytes, mtime]): two images
\* with the same bytes under different names and dates, a video, a text file.
SrcFolder == [n \in Names |->
    CASE n = NameA -> [bytes |-> "imgA", mtime |-> Dec2023]
      [] n = NameB -> [bytes |-> "imgA", mtime |-> Jan2024]
      [] n = NameC -> [bytes |-> "vidC", mtime |-> Dec2023]
      [] n = NameN -> [bytes |-> "txtD", mtime |-> Dec2023]]

\* The multipart requests a client sends to POST /api/upload: the file parts
\* in their order.  A staged file is dated by its upload.
UploadRequests ==
    { << [filename |-> NameA, bytes |-> "imgB"], [filename |-> NameC, bytes |-> "vidC"],
         [filename |-> NameN, bytes |-> "txtD"] >> }

UploadTime == Jan2024

Presets == {"standard", "high", "max"}

\* The encoder is a function of the bytes and of the quality: the sizes of the
\* AVIF of each 100-byte image of the model at the three qualities.  At
\* quality 45 one image grows and the other shrinks by exactly 2%.
AvifLen == [b \in {"imgA", "imgB"} |->
              [q \in {28, 35, 45} |->
                  CASE q = 28 -> 50
                    [] q = 35 -> 60
                    [] q = 45 -> IF b = "imgA" THEN 120 ELSE 98]]

VideoLens == {80}

\* A tag value that new Date() cannot read (exifr hands a date it cannot
\* revive on as the raw string).
NotADate == 0 - 2

\* The number NaN
NaN == 0 - 3

\* What exifr.parse(buf) gives: it throws, it resolves to undefined (no
\* metadata), or to an object in which each of the three date tags is absent
\* (<<>>) or has a value.
ParseThrows == [kind |-> "throws", DateTimeOriginal |-> <<>>, CreateDate |-> <<>>,
                ModifyDate |-> <<>>]

ParseUndefined == [kind |-> "undefined", DateTimeOriginal |-> <<>>, CreateDate |-> <<>>,
                   ModifyDate |-> <<>>]

ParseObject(dto, cd, md) ==
    [kind |-> "object", DateTimeOriginal |-> dto, CreateDate |-> cd, ModifyDate |-> md]

\* exifr.parse on the images of the model: one has the three dates (taken
\* June 2022, digitised and edited later), on the other the parser throws.
exifr_parse == [b \in {"imgA", "imgB"} |->
    IF b = "imgA" THEN ParseObject(<<Jun2022>>, <<Jun2022 + 1>>, <<Dec2023>>)
    ELSE ParseThrows]

\* a || b
OrElse(a, b) == IF a # <<>> THEN a ELSE b

\* new Date(v).getTime()
DateGetTime(v) == IF v = NotADate THEN NaN ELSE v

\* The body of extractExif after the parse: created = data?.DateTimeOriginal
\* || data?.CreateDate || data?.ModifyDate; ts = created ? new
\* Date(created).getTime() : undefined; a throw of the parser is caught and
\* {} returned.  rejected says whether the promise rejects.
ExtractFrom_NoCatch(data) ==
    LET created == OrElse(data.DateTimeOriginal, OrElse(data.CreateDate, data.ModifyDate))
    IN  IF data.kind = "throws" THEN [rejected |-> TRUE, createdTs |-> <<>>]
        ELSE [rejected |-> FALSE,
              createdTs |-> IF created # <<>> THEN <<DateGetTime(created[1])>> ELSE <<>>]

ExtractFrom(data) ==
    LET created == OrElse(data.DateTimeOriginal, OrElse(data.CreateDate, data.ModifyDate))
    IN  IF data.kind = "throws" THEN [rejected |-> FALSE, createdTs |-> <<>>]
        ELSE [rejected |-> FALSE,
              createdTs |-> IF created # <<>> THEN <<DateGetTime(created[1])>> ELSE <<>>]

\* await extractExif(buf)
extractExif(buf) == ExtractFrom(exifr_parse[buf])

\* ex.createdTs ?? createdTs
CreatedTsOf(ex, createdTs) == IF ex.createdTs # <<>> THEN ex.createdTs[1] ELSE createdTs

\* A number bound to a statement: SQLite stores NaN as NULL.
SqlNumber(v) == IF v = NaN THEN 0 - 1 ELSE v

\* String(new Date(ts).getFullYear())
YearTerm(ts) == IF ts = NaN THEN <<"N", "a", "N">> ELSE Digits(getFullYear(ts))

Put(fn, k, v) == [x \in (DOMAIN fn) \cup {k} |-> IF x = k THEN v ELSE fn[x]]

Drop(fn, ks) == [x \in (DOMAIN fn) \ ks |-> fn[x]]

Empty == [x \in {} |-> NULL]

(***************************************************************************)
(* State.                                                                  *)
(***************************************************************************)
VARIABLES
    asset,        \* table asset: a set of rows
    index_terms,  \* table index_terms: a bag of <<asset_id, term>>
    rowBy,        \* history: asset id -> <<import, file index>> of the pass that wrote its row
    vaultFiles,   \* images/ and videos/: path -> [src, len, qual]
    thumbs,       \* thumbs/: the ids that have <id>.webp
    backups,      \* backups/: <<id, file name>> -> bytes
    uploads,      \* the staging directory .uploads: name -> [bytes, mtime]
    run,          \* the imports in flight or last finished (CLI importFolder or
                  \* POST /api/compress), one per slot
    started,      \* how many imports were started
    faultsLeft,   \* how many more steps the environment may make fail
    resp,         \* the last answer of the read path (GET /api/assets, CLI query)
    vault         \* the vault root: its subdirectories and meta/manifest.json

vars == <<asset, index_terms, rowBy, vaultFiles, thumbs, backups, uploads, run, started,
          faultsLeft, resp, vault>>

(***************************************************************************)
(* The vault layout.                                                       *)
(***************************************************************************)
LayoutDirs == {"images", "videos", "thumbs", "backups", "meta"}

\* A vault root in which nothing was created yet.
NoVault == [dirs |-> {}, manifest |-> <<>>]

\* Every call writes the manifest anew.
ensureVaultLayout_Rewrite(v, now) == [dirs |-> v.dirs \cup LayoutDirs, manifest |-> <<now>>]

\* mkdirSync(d, { recursive: true }) for the five directories; the manifest
\* { createdAt: Date.now() } is written if meta/manifest.json does not exist.
ensureVaultLayout(v, now) ==
    [dirs |-> v.dirs \cup LayoutDirs,
     manifest |-> IF v.manifest = <<>> THEN <<now>> ELSE v.manifest]

\* Date.now() when the n-th command of a behaviour starts.
DateNow(n) == Jan2024 + n

IdleRun == [pc |-> "idle", no |-> 0, kind |-> NULL, preset |-> NULL, files |-> <<>>, i |-> 0,
            converted |-> 0, buf |-> NULL, createdTs |-> 0, avif |-> 0,
            qual |-> 0, log |-> <<>>]

InitWith(faults) ==
    /\ asset = {}
    /\ index_terms = EmptyBag
    /\ rowBy = Empty
    /\ vaultFiles = Empty
    /\ thumbs = {}
    /\ backups = Empty
    /\ uploads = Empty
    /\ run = [r \in Runs |-> IdleRun]
    /\ started = 0
    /\ faultsLeft = faults
    /\ resp = [op |-> "none", text |-> <<>>, error |-> FALSE, rows |-> <<>>]
    /\ vault = NoVault

Init == InitWith(MaxFaults)

(***************************************************************************)
(* Catalog statements.                                                     *)
(***************************************************************************)
\* A plain INSERT that keeps the row already there.
UpsertAsset_KeepOld(tbl, row) == tbl \cup {row}

\* INSERT OR REPLACE INTO asset (...): id is the primary key, so a row with
\* the same id is deleted and the new row inserted; columns the statement
\* does not name are NULL in the new row and are not modelled.
UpsertAsset(tbl, row) == {x \in tbl : x.id # row.id} \cup {row}

\* An insert that skips a term the asset already has.
InsertTerms_Dedup(bag, id, terms) ==
    bag (+) SetToBag({<<id, terms[k]>> : k \in 1..Len(terms)} \ BagToSet(bag))

RECURSIVE InsertTerms(_, _, _)
\* INSERT INTO index_terms (asset_id, term), once per term of the sequence
InsertTerms(bag, id, terms) ==
    IF terms = <<>> THEN bag
    ELSE InsertTerms(bag (+) SetToBag({<<id, Head(terms)>>}), id, Tail(terms))

(***************************************************************************)
(* The per-file pass of importFolder and of the compress handler.          *)
(***************************************************************************)
\* const qual = preset === 'max' ? 28 : preset === 'high' ? 45 : 35
Qual(preset) == IF preset = "max" THEN 28 ELSE IF preset = "high" THEN 45 ELSE 35

\* path.join(yymmDir(base, createdTs), `${id}${ext}`)
ArtifactPath(base, ts, id, ext) == yymmDir(base, ts) \o <<id, ext>>

\* The folder a run scans: the CLI's --src folder, or the staging directory.
Folder(kind) == IF kind = "cli" THEN SrcFolder ELSE uploads

\* The absolute path of an enumerated file.
FilePath(kind, name) == <<IF kind = "cli" THEN "src" ELSE ".uploads", name>>

\* path.basename(file)
basename(file) == file[2]

LogEntry(rec, res, step) ==
    [res |-> res, step |-> step,
     id |-> IF rec.buf = NULL THEN NULL ELSE idFromBuffer(rec.buf)]

\* A loop that goes on two files further.
Continue_Skip(rec, res, step) ==
    [rec EXCEPT !.i = @ + 2, !.pc = "next", !.buf = NULL, !.createdTs = 0,
                !.avif = 0, !.qual = 0, !.log = Append(@, LogEntry(rec, res, step))]

\* The loop goes on with the next file.
Continue(rec, res, step) ==
    [rec EXCEPT !.i = @ + 1, !.pc = "next", !.buf = NULL, !.createdTs = 0,
                !.avif = 0, !.qual = 0, !.log = Append(@, LogEntry(rec, res, step))]

\* A pass without the try/catch: the exception leaves the loop.
OnFileError_Raise(rec, step) == [rec EXCEPT !.pc = "raised"]

\* catch (e) { console.error('Failed:', file, e) }: the failure is logged
\* and the loop goes on.
OnFileError(rec, step) == Continue(rec, "failed", step)

\* converted++ at the end of a pass
Converted(rec) == [Continue(rec, "done", "none") EXCEPT !.converted = @ + 1]

\* The environment makes a step fail (an I/O error, a corrupt input) only
\* while it has faults left.
Faulty(fault) ==
    /\ fault # "none" => faultsLeft > 0
    /\ faultsLeft' = IF fault = "none" THEN faultsLeft ELSE faultsLeft - 1

\* An incomplete file.
PartialFile == [src |-> NULL, len |-> 0, qual |-> 0]

\* A write that fails leaves the file as it was, or truncated.
FailedWrite(fn, path, damaged) == {fn, Put(fn, path, damaged)}

\* The import of the slot is between its start and its end.
InFlight(r) == run[r].pc \notin {"idle", "done", "raised"}

\* import command / POST /api/compress: ensureDb and ensureVaultLayout, then
\* the enumeration is awaited.  A failure of the initialisation is raised to
\* the caller.
StartImportWith(r, kind, preset) ==
    /\ ~InFlight(r)
    /\ \A q \in Runs : q < r => InFlight(q)
    /\ started < MaxImports
    /\ started' = started + 1
    /\ \E fault \in {"none", "init"} :
         /\ Faulty(fault)
         /\ run' = [run EXCEPT ![r] =
                [IdleRun EXCEPT !.pc = IF fault = "none" THEN "glob" ELSE "raised",
                                !.no = started + 1, !.kind = kind, !.preset = preset]]
         /\ vault' = IF fault = "none" THEN ensureVaultLayout(vault, DateNow(started + 1))
                      ELSE vault
    /\ UNCHANGED <<asset, index_terms, rowBy, vaultFiles, thumbs, backups, uploads, resp>>

\* An import is started with one of the three presets.
StartImport(r) ==
    \E kind \in {"cli", "http"}, preset \in Presets : StartImportWith(r, kind, preset)

\* fg(['**/*.*'], { cwd, absolute: true, dot: false }): the names of the folder
Enumeration(dir) == SelectSeq(NameOrder, LAMBDA n : n \in DOMAIN dir)

\* files = await fg(...); let converted = 0
Enumerate(r) ==
    /\ run[r].pc = "glob"
    /\ run' = [run EXCEPT ![r] =
           [@ EXCEPT !.pc = "next", !.files = Enumeration(Folder(run[r].kind)), !.i = 1,
                     !.converted = 0]]
    /\ UNCHANGED <<started, asset, index_terms, rowBy, vaultFiles, thumbs, backups, uploads,
                   faultsLeft, resp>>
    /\ UNCHANGED vault

\* Top of the loop body up to the first await: read the file, compute the id,
\* stat it, classify it by extension.
BeginFile(r) ==
    /\ run[r].pc = "next"
    /\ run[r].i <= Len(run[r].files)
    /\ LET rec  == run[r]
           name == rec.files[rec.i]
           dir  == Folder(rec.kind)
       IN \E fault \in {"none", "read", "mkdir"} :
            /\ Faulty(fault)
            /\ IF name \notin DOMAIN dir \/ fault = "read"
               THEN run' = [run EXCEPT ![r] = OnFileError(rec, "read")]
               ELSE LET got == [rec EXCEPT !.buf = dir[name].bytes,
                                           !.createdTs = dir[name].mtime]
                    IN IF isImage(name)
                       THEN /\ fault = "none"
                            /\ run' = [run EXCEPT ![r] =
                                   [got EXCEPT !.pc = "sharp", !.qual = Qual(rec.preset)]]
                       ELSE IF isVideo(name)
                       THEN IF fault = "mkdir"
                            THEN run' = [run EXCEPT ![r] = OnFileError(got, "mkdir")]
                            ELSE run' = [run EXCEPT ![r] = [got EXCEPT !.pc = "ffmpeg"]]
                       ELSE /\ fault = "none"
                            /\ run' = [run EXCEPT ![r] = Continue(got, "ignored", "none")]
    /\ UNCHANGED <<started, asset, index_terms, rowBy, vaultFiles, thumbs, backups, uploads, resp>>
    /\ UNCHANGED vault

\* A pipeline without the size guard.
TinySaving_Never(kind, avifLen, bufLen) == FALSE

\* Skip tiny conversions (savings < 2%): avif.length >= buf.length * 0.98.
\* Only the compress handler has this guard.
TinySaving(kind, avifLen, bufLen) == kind = "http" /\ avifLen * 100 >= bufLen * 98

\* await sharp(buf).avif({ quality: qual }).toBuffer() has settled: the
\* artifact is written to its date bucket.
SharpDone(r) ==
    /\ run[r].pc = "sharp"
    /\ LET rec     == run[r]
           id      == idFromBuffer(rec.buf)
           outPath == ArtifactPath("images", rec.createdTs, id, ".avif")
           avif    == AvifLen[rec.buf][rec.qual]
       IN \E fault \in {"none", "transcode", "write"} :
            /\ Faulty(fault)
            /\ IF fault = "transcode"
               THEN /\ run' = [run EXCEPT ![r] = OnFileError(rec, "transcode")]
                    /\ UNCHANGED vaultFiles
               ELSE IF TinySaving(rec.kind, avif, BufLen[rec.buf])
               THEN /\ fault = "none"
                    /\ run' = [run EXCEPT ![r] = Continue(rec, "guard", "none")]
                    /\ UNCHANGED vaultFiles
               ELSE IF fault = "write"
               THEN \* yymmDir or writeFileSync throws
                    /\ run' = [run EXCEPT ![r] = OnFileError(rec, "write")]
                    /\ vaultFiles' \in FailedWrite(vaultFiles, outPath, PartialFile)
               ELSE /\ run' = [run EXCEPT ![r] = [rec EXCEPT !.pc = "thumb", !.avif = avif]]
                    /\ vaultFiles' = Put(vaultFiles, outPath,
                                         [src |-> rec.buf, len |-> avif, qual |-> rec.qual])
    /\ UNCHANGED <<started, asset, index_terms, rowBy, thumbs, backups, uploads, resp>>
    /\ UNCHANGED vault

\* await makeThumb(buf) has settled: thumbs/<id>.webp is written.
ThumbDone(r) ==
    /\ run[r].pc = "thumb"
    /\ LET rec == run[r]
           id  == idFromBuffer(rec.buf)
       IN \E fault \in {"none", "thumb"} :
            /\ Faulty(fault)
            /\ IF fault # "none"
               THEN \* makeThumb rejects or writeFileSync throws
                    /\ run' = [run EXCEPT ![r] = OnFileError(rec, fault)]
                    /\ UNCHANGED thumbs
               ELSE /\ run' = [run EXCEPT ![r] = [rec EXCEPT !.pc = "exif"]]
                    /\ thumbs' = thumbs \cup {id}
    /\ UNCHANGED <<started, asset, index_terms, rowBy, vaultFiles, backups, uploads, resp>>
    /\ UNCHANGED vault

\* The row a pass writes.
AssetRow(id, file, outPath, mediaType, ts, bytesOrig, bytesVault, preset) ==
    [id |-> id, orig_path |-> file, vault_path |-> outPath, media_type |-> mediaType,
     created_ts |-> ts, bytes_orig |-> bytesOrig, bytes_vault |-> bytesVault,
     quality_preset |-> preset, state |-> "verified"]

\* The index terms of a pass: the year; the compress handler adds the
\* lower-cased base name (extractExif returns no make or model, so those two
\* inserts never run).
TermsOf(kind, ts, file) ==
    IF kind = "cli" THEN <<YearTerm(ts)>>
    ELSE <<YearTerm(ts), toLowerCase(basename(file))>>

\* The faults that can stop the commit of a pass.
CommitFaults(kind) ==
    {"none", "upsert", "term"} \cup (IF kind = "cli" THEN {"backup"} ELSE {"term2"})

\* The steps from the catalog write to the end of the pass.  A fault stops
\* the pass at that step; everything before it has taken effect.
\*   - the upsert of the row
\*   - the inserts into index_terms (the first, the second)
\*   - importFolder only: the copy of the original to backups/<id>/<name>
\*   - converted++
Commit(r, row, terms, fault) ==
    LET rec      == run[r]
        id       == row.id
        name     == rec.files[rec.i]
        upserted == fault # "upsert"
        nTerms   == CASE fault = "upsert" -> 0
                      [] fault = "term"   -> 0
                      [] fault = "term2"  -> 1
                      [] OTHER            -> Len(terms)
    IN /\ Faulty(fault)
       /\ asset' = IF upserted THEN UpsertAsset(asset, row) ELSE asset
       /\ rowBy' = IF upserted THEN Put(rowBy, id, <<rec.no, rec.i>>) ELSE rowBy
       /\ index_terms' = InsertTerms(index_terms, id, SubSeq(terms, 1, nTerms))
       /\ IF rec.kind = "cli" /\ fault = "none"
          THEN backups' = Put(backups, <<id, name>>, rec.buf)
          ELSE IF fault = "backup"
          THEN backups' \in FailedWrite(backups, <<id, name>>, "partial")
          ELSE UNCHANGED backups
       /\ run' = [run EXCEPT ![r] = IF fault = "none" THEN Converted(rec)
                                    ELSE OnFileError(rec, fault)]

\* await extractExif(buf) has settled (it never rejects): the row and the
\* index terms are written.
ExifDone(r) ==
    /\ run[r].pc = "exif"
    /\ LET rec     == run[r]
           id      == idFromBuffer(rec.buf)
           file    == FilePath(rec.kind, rec.files[rec.i])
           outPath == ArtifactPath("images", rec.createdTs, id, ".avif")
           ex      == extractExif(rec.buf)
           ts      == CreatedTsOf(ex, rec.createdTs)
       IN IF ex.rejected
          THEN /\ run' = [run EXCEPT ![r] = OnFileError(rec, "exif")]
               /\ UNCHANGED <<asset, index_terms, rowBy, backups, faultsLeft>>
          ELSE \E fault \in CommitFaults(rec.kind) :
               Commit(r,
                      AssetRow(id, file, outPath, "image", SqlNumber(ts), BufLen[rec.buf],
                               rec.avif, rec.preset),
                      TermsOf(rec.kind, ts, file), fault)
    /\ UNCHANGED <<started, vaultFiles, thumbs, uploads, resp>>
    /\ UNCHANGED vault

\* The ffmpeg run has ended.  ffmpeg writes to outPath itself: after an error
\* the output may be missing or incomplete.
FfmpegDone(r) ==
    /\ run[r].pc = "ffmpeg"
    /\ LET rec     == run[r]
           id      == idFromBuffer(rec.buf)
           name    == rec.files[rec.i]
           file    == FilePath(rec.kind, name)
           dir     == Folder(rec.kind)
           outPath == ArtifactPath("videos", rec.createdTs, id, ".mp4")
       IN \/ /\ Faulty("transcode")
             /\ run' = [run EXCEPT ![r] = OnFileError(rec, "transcode")]
             /\ vaultFiles' \in FailedWrite(vaultFiles, outPath, PartialFile)
             /\ UNCHANGED <<asset, index_terms, rowBy, backups>>
          \/ \E len \in VideoLens :
               /\ vaultFiles' = Put(vaultFiles, outPath,
                                    [src |-> rec.buf, len |-> len, qual |-> 0])
               /\ IF name \notin DOMAIN dir
                  THEN \* fs.statSync(file) throws: the file is gone
                       /\ run' = [run EXCEPT ![r] = OnFileError(rec, "stat")]
                       /\ UNCHANGED <<asset, index_terms, rowBy, backups, faultsLeft>>
                  ELSE \E fault \in CommitFaults(rec.kind) :
                         Commit(r,
                                AssetRow(id, file, outPath, "video", rec.createdTs,
                                         BufLen[dir[name].bytes], len, rec.preset),
                                TermsOf(rec.kind, rec.createdTs, file), fault)
    /\ UNCHANGED <<started, thumbs, uploads, resp>>
    /\ UNCHANGED vault

\* After the loop: the compress handler removes every enumerated file from
\* the staging directory and answers { ok, converted }; importFolder logs
\* the count.
Finish(r) ==
    /\ run[r].pc = "next"
    /\ run[r].i > Len(run[r].files)
    /\ run' = [run EXCEPT ![r] = [@ EXCEPT !.pc = "done"]]
    /\ uploads' = IF run[r].kind = "http"
                  THEN Drop(uploads, {run[r].files[k] : k \in 1..Len(run[r].files)})
                  ELSE uploads
    /\ UNCHANGED <<started, asset, index_terms, rowBy, vaultFiles, thumbs, backups, faultsLeft, resp>>
    /\ UNCHANGED vault

RECURSIVE StoreParts(_, _)
\* for await (const part of parts): each file part is written to the staging
\* directory under its base name, replacing a file of that name.
StoreParts(dir, parts) ==
    IF parts = <<>> THEN dir
    ELSE StoreParts(Put(dir, Head(parts).filename,
                        [bytes |-> Head(parts).bytes, mtime |-> UploadTime]),
                    Tail(parts))

\* POST /api/upload
Upload ==
    /\ \E parts \in UploadRequests : uploads' = StoreParts(uploads, parts)
    /\ UNCHANGED <<started, asset, index_terms, rowBy, vaultFiles, thumbs, backups, run,
                   faultsLeft, resp>>
    /\ UNCHANGED vault

\* No import is between its start and its end.
Quiet == \A r \in Runs : ~InFlight(r)

\* The pipeline is used as the design assumes: one import at a time per
\* vault, uploads between imports.
Next ==
    \/ \E r \in Runs : Quiet /\ StartImport(r)
    \/ \E r \in Runs : Enumerate(r)
    \/ \E r \in Runs : BeginFile(r)
    \/ \E r \in Runs : SharpDone(r)
    \/ \E r \in Runs : ThumbDone(r)
    \/ \E r \in Runs : ExifDone(r)
    \/ \E r \in Runs : FfmpegDone(r)
    \/ \E r \in Runs : Finish(r)
    \/ Quiet /\ Upload

Spec == Init /\ [][Next]_vars

(***************************************************************************)
(* The read path: simpleQuery (two copies), the CLI query command and the  *)
(* assets listing.                                                         *)
(***************************************************************************)
\* LIMIT 200 and LIMIT 500, scaled to the catalogs of the model
NoTextLimit == 1

TextLimit == 2

\* SQL NULL in an INTEGER column (sizes and timestamps are >= 0)
NullInt == 0 - 1

Whitespace == {" "}

RECURSIVE SplitAt(_, _, _)
SplitAt(s, cur, inSep) ==
    IF s = <<>> THEN <<cur>>
    ELSE IF Head(s) \in Whitespace
         THEN IF inSep THEN SplitAt(Tail(s), cur, TRUE)
              ELSE <<cur>> \o SplitAt(Tail(s), <<>>, TRUE)
         ELSE SplitAt(Tail(s), Append(cur, Head(s)), FALSE)

\* String.prototype.split(/\s+/)
split(s) == SplitAt(s, <<>>, FALSE)

\* Array.prototype.filter(Boolean) on strings: the empty string is dropped
filterBoolean(seq) == SelectSeq(seq, LAMBDA t : t # <<>>)

RECURSIVE Like(_, _)
\* SQLite's  s LIKE p : % matches any run of characters, _ any one
\* character, other characters match without regard to ASCII case.
Like(p, s) ==
    IF p = <<>> THEN s = <<>>
    ELSE IF Head(p) = "%" THEN Like(Tail(p), s) \/ (s # <<>> /\ Like(p, Tail(s)))
    ELSE /\ s # <<>>
         /\ Head(p) = "_" \/ LowerChar(Head(p)) = LowerChar(Head(s))
         /\ Like(Tail(p), Tail(s))

\* `%${t}%`
Wrap(t) == <<"%">> \o t \o <<"%">>

\* FROM asset a LEFT JOIN index_terms t ON a.id = t.asset_id WHERE
\* t.term LIKE ? OR ... GROUP BY a.id : the rows with at least one index
\* term that matches one of the patterns, one row per id.
Matching(tbl, idx, patterns) ==
    {a \in tbl : \E t \in BagToSet(idx) :
                    /\ t[1] = a.id
                    /\ \E k \in 1..Len(patterns) : Like(patterns[k], t[2])}

\* The orders in which a statement can return the rows S.
Orders(S) == {f \in [1..Cardinality(S) -> S] : \A i, j \in DOMAIN f : i # j => f[i] # f[j]}

\* ORDER BY created_ts DESC; rows with equal created_ts come in any order.
OrderByCreatedDesc(S) ==
    {f \in Orders(S) : \A i, j \in DOMAIN f : i < j => f[i].created_ts >= f[j].created_ts}

\* LIMIT n
Limit(rows, n) == SubSeq(rows, 1, IF Len(rows) < n THEN Len(rows) ELSE n)

Answer(rows) == [error |-> FALSE, rows |-> rows]

\* db.prepare throws on  WHERE  GROUP BY
SqlError == [error |-> TRUE, rows |-> <<>>]

\* packages/core/src/query.ts: the outcomes of simpleQuery(db, {text}); an
\* absent or empty text is <<>>.
simpleQuery(tbl, idx, text) ==
    IF text = <<>>
    THEN {Answer(Limit(rows, NoTextLimit)) : rows \in OrderByCreatedDesc(tbl)}
    ELSE LET terms == filterBoolean(split(toLowerCase(text)))
             patterns == [k \in 1..Len(terms) |-> Wrap(terms[k])]
         IN  IF terms = <<>> THEN {SqlError}
             ELSE {Answer(Limit(rows, TextLimit)) :
                      rows \in OrderByCreatedDesc(Matching(tbl, idx, patterns))}

\* The earlier copy of simpleQuery: the same statements without ORDER BY.
simpleQueryEarlier(tbl, idx, text) ==
    IF text = <<>>
    THEN {Answer(Limit(rows, NoTextLimit)) : rows \in Orders(tbl)}
    ELSE LET terms == filterBoolean(split(toLowerCase(text)))
             patterns == [k \in 1..Len(terms) |-> Wrap(terms[k])]
         IN  IF terms = <<>> THEN {SqlError}
             ELSE {Answer(Limit(rows, TextLimit)) :
                      rows \in Orders(Matching(tbl, idx, patterns))}

\* CLI query command: one pattern made of the whole text as typed, no
\* ORDER BY, LIMIT 200 with and without text.
queryVault(tbl, idx, text) ==
    IF text = <<>>
    THEN {Answer(Limit(rows, NoTextLimit)) : rows \in Orders(tbl)}
    ELSE {Answer(Limit(rows, NoTextLimit)) :
             rows \in Orders(Matching(tbl, idx, <<Wrap(text)>>))}

\* r.bytes_orig ?? 0
Coalesce(v, d) == IF v = NullInt THEN d ELSE v

\* Math.max(a, b)
Math_max(a, b) == IF a >= b THEN a ELSE b

\* The difference without the clamp at 0.
saved_bytes_NoClamp(r) == Coalesce(r.bytes_orig, 0) - Coalesce(r.bytes_vault, 0)

saved_bytes(r) == Math_max(0, Coalesce(r.bytes_orig, 0) - Coalesce(r.bytes_vault, 0))

\* rows.map(r => ({ id, media_type, created_ts, vault_path, bytes_orig,
\* bytes_vault, saved_bytes }))
Listing(rows) ==
    [k \in 1..Len(rows) |->
        [id |-> rows[k].id, media_type |-> rows[k].media_type,
         created_ts |-> rows[k].created_ts, vault_path |-> rows[k].vault_path,
         bytes_orig |-> rows[k].bytes_orig, bytes_vault |-> rows[k].bytes_vault,
         saved_bytes |-> saved_bytes(rows[k])]]

\* The texts the clients of the model ask for; <<>> is a query without text.
QueryTexts ==
    { <<>>,
      <<"2", "0", "2", "3">>,
      <<"2", "0", "2", "3", " ", "2", "0", "2", "4">>,
      <<"A", ".", "J", "P", "G">>,
      <<"a", "_", "j", "p", "g">>,
      <<" ">> }

\* GET /api/assets?text=...
ApiAssets ==
    /\ \E text \in QueryTexts :
          \E out \in simpleQuery(asset, index_terms, text) :
             resp' = [op |-> "assets", text |-> text, error |-> out.error,
                      rows |-> Listing(out.rows)]
    /\ UNCHANGED <<asset, index_terms, rowBy, vaultFiles, thumbs, backups, uploads, run,
                   started, faultsLeft>>
    /\ UNCHANGED vault

\* CLI: query [text]; resp keeps the rows the statement returned, which
\* console.table prints.
CliQuery ==
    /\ \E text \in QueryTexts :
          \E out \in queryVault(asset, index_terms, text) :
             resp' = [op |-> "query", text |-> text, error |-> out.error, rows |-> out.rows]
    /\ UNCHANGED <<asset, index_terms, rowBy, vaultFiles, thumbs, backups, uploads, run,
                   started, faultsLeft>>
    /\ UNCHANGED vault

\* A caller of the earlier copy of simpleQuery.
EarlierQuery ==
    /\ \E text \in QueryTexts :
          \E out \in simpleQueryEarlier(asset, index_terms, text) :
             resp' = [op |-> "earlier", text |-> text, error |-> out.error, rows |-> out.rows]
    /\ UNCHANGED <<asset, index_terms, rowBy, vaultFiles, thumbs, backups, uploads, run,
                   started, faultsLeft>>
    /\ UNCHANGED vault

\* A query was answered.
Asked == resp.op # "none"

\* Imports without faults, and one query at any moment between their steps
\* (a query changes nothing but resp, so a second one in the same behaviour
\* sees nothing the first cannot see).
NextQuery ==
    \/ Next
    \/ ~Asked /\ ApiAssets
    \/ ~Asked /\ CliQuery
    \/ ~Asked /\ EarlierQuery

SpecQuery == InitWith(0) /\ [][NextQuery]_vars

\* largest size in a stored row of SpecListing
MaxBytes == 6

StoredId == "5f0e1d2c3b4a5968"

\* A vault whose catalog was written before: one row whose size columns
\* hold any value the schema allows, NULL included.
InitStored ==
    /\ \E o, v \in {NullInt} \cup (0..MaxBytes) :
          asset = {[id |-> StoredId, orig_path |-> <<"src", NameA>>,
                    vault_path |-> ArtifactPath("images", Dec2023, StoredId, ".avif"),
                    media_type |-> "image", created_ts |-> Dec2023,
                    bytes_orig |-> o, bytes_vault |-> v,
                    quality_preset |-> "standard", state |-> "verified"]}
    /\ index_terms = SetToBag({<<StoredId, Digits(getFullYear(Dec2023))>>})
    /\ rowBy = Empty
    /\ vaultFiles = Empty
    /\ thumbs = {}
    /\ backups = Empty
    /\ uploads = Empty
    /\ run = [r \in Runs |-> IdleRun]
    /\ started = 0
    /\ faultsLeft = 0
    /\ resp = [op |-> "none", text |-> <<>>, error |-> FALSE, rows |-> <<>>]
    /\ vault = ensureVaultLayout(NoVault, Dec2023)

\* The assets listing over stored rows.
SpecListing == InitStored /\ [][ApiAssets]_vars

(***************************************************************************)
(* The metadata step of an image pass, over every outcome of the parser.   *)
(***************************************************************************)
TagValues == {<<>>, <<Jun2022>>, <<Dec2023>>, <<NotADate>>}

ParseOutcomes ==
    {ParseThrows, ParseUndefined}
       \cup {ParseObject(dto, cd, md) : dto \in TagValues, cd \in TagValues, md \in TagValues}

\* An image file is at the metadata step of its pass: what the parser finds
\* in it, and its modification time.
InitExif ==
    /\ asset = {}
    /\ index_terms = EmptyBag
    /\ rowBy = Empty
    /\ vaultFiles = Empty
    /\ thumbs = {}
    /\ backups = Empty
    /\ uploads = Empty
    /\ run = [r \in Runs |-> IdleRun]
    /\ started = 0
    /\ faultsLeft = 0
    /\ \E data \in ParseOutcomes, mtime \in {Jan2024, Jan2024 + 1} :
          resp = [op |-> "file", data |-> data, mtime |-> mtime]
    /\ vault = ensureVaultLayout(NoVault, Dec2023)

\* const ex = await extractExif(buf), then the values the pass binds to the
\* upsert (ex.createdTs ?? createdTs) and to the year term; a rejection would
\* end the pass in the catch block.
ExifStep ==
    /\ resp.op = "file"
    /\ LET ex == ExtractFrom(resp.data)
           ts == CreatedTsOf(ex, resp.mtime)
       IN resp' = [op |-> "exif", data |-> resp.data, mtime |-> resp.mtime,
                   failed |-> ex.rejected, ex |-> ex.createdTs,
                   created_ts |-> IF ex.rejected THEN 0 - 1 ELSE SqlNumber(ts),
                   term |-> IF ex.rejected THEN <<>> ELSE YearTerm(ts)]
    /\ UNCHANGED <<asset, index_terms, rowBy, vaultFiles, thumbs, backups, uploads, run,
                   started, faultsLeft>>
    /\ UNCHANGED vault

SpecExif == InitExif /\ [][ExifStep]_vars

(***************************************************************************)
(* The vault layout over vault roots in any state of completion.           *)
(***************************************************************************)
\* CLI: init --vault: ensureVaultLayout, then ensureDb.
InitVaultCmd ==
    /\ started < MaxImports
    /\ started' = started + 1
    /\ vault' = ensureVaultLayout(vault, DateNow(started + 1))
    /\ UNCHANGED <<asset, index_terms, rowBy, vaultFiles, thumbs, backups, uploads, run,
                   faultsLeft, resp>>

\* The vault roots a command can find: nothing, a meta directory without or
\* with a manifest, the whole layout without or with a manifest.
InitLayouts ==
    {v \in [dirs : {{}, {"meta"}, LayoutDirs}, manifest : {<<>>, <<Dec2023>>}] :
        v.manifest # <<>> => "meta" \in v.dirs}

InitLayout ==
    /\ asset = {}
    /\ index_terms = EmptyBag
    /\ rowBy = Empty
    /\ vaultFiles = Empty
    /\ thumbs = {}
    /\ backups = Empty
    /\ uploads = Empty
    /\ run = [r \in Runs |-> IdleRun]
    /\ started = 0
    /\ faultsLeft = 0
    /\ resp = [op |-> "none", text |-> <<>>, error |-> FALSE, rows |-> <<>>]
    /\ vault \in InitLayouts

\* The init command at any moment, and imports.
NextLayout ==
    \/ InitVaultCmd
    \/ Next

SpecLayout == InitLayout /\ [][NextLayout]_vars

(***************************************************************************)
(* Imports when the staging directory holds the bytes of an image under a  *)
(* video name.                                                             *)
(***************************************************************************)
\* A client has uploaded the bytes of a.jpg of the source folder under the
\* name c.mp4 (ffmpeg reads a still image as a one-frame video).
InitRetype ==
    /\ asset = {}
    /\ index_terms = EmptyBag
    /\ rowBy = Empty
    /\ vaultFiles = Empty
    /\ thumbs = {}
    /\ backups = Empty
    /\ uploads = Put(Empty, NameC, [bytes |-> "imgA", mtime |-> UploadTime])
    /\ run = [r \in Runs |-> IdleRun]
    /\ started = 0
    /\ faultsLeft = MaxFaults
    /\ resp = [op |-> "none", text |-> <<>>, error |-> FALSE, rows |-> <<>>]
    /\ vault = NoVault

SpecRetype == InitRetype /\ [][Next]_vars

(***************************************************************************)
(* The read endpoints and the upload endpoint of the HTTP server: which    *)
(* paths a request makes the server touch.  A path is a sequence of        *)
(* segments, absolute or relative to the working directory of the process. *)
(***************************************************************************)
Abs(segs) == [abs |-> TRUE, segs |-> segs]

Rel(segs) == [abs |-> FALSE, segs |-> segs]

RECURSIVE Normal(_, _, _)
\* path.normalize over segments: "." is dropped, ".." removes the segment
\* before it, and is dropped at the root of an absolute path
Normal(segs, abs, done) ==
    IF segs = <<>> THEN done
    ELSE LET h == Head(segs) IN
         IF h = "." \/ h = "" THEN Normal(Tail(segs), abs, done)
         ELSE IF h = ".."
              THEN IF done # <<>> /\ done[Len(done)] # ".."
                   THEN Normal(Tail(segs), abs, SubSeq(done, 1, Len(done) - 1))
                   ELSE IF abs THEN Normal(Tail(segs), abs, done)
                        ELSE Normal(Tail(segs), abs, Append(done, h))
              ELSE Normal(Tail(segs), abs, Append(done, h))

\* path.join(p, ...segs)
path_join(p, segs) == [abs |-> p.abs, segs |-> Normal(p.segs \o segs, p.abs, <<>>)]

\* path.resolve(p) in a process whose working directory is cwd
path_resolve(cwd, p) ==
    Abs(Normal(IF p.abs THEN p.segs ELSE cwd.segs \o p.segs, TRUE, <<>>))

RECURSIVE PathSegs(_, _)
\* the segments of a path written as characters, separated by "/"
PathSegs(cs, cur) ==
    IF cs = <<>> THEN <<Join(cur)>>
    ELSE IF Head(cs) = "/" THEN <<Join(cur)>> \o PathSegs(Tail(cs), <<>>)
         ELSE PathSegs(Tail(cs), Append(cur, Head(cs)))

\* is `base + path.sep` a prefix of the resolved path
startsWith(resolved, base) ==
    /\ Len(resolved.segs) > Len(base.segs)
    /\ SubSeq(resolved.segs, 1, Len(base.segs)) = base.segs

\* The working directory of the server, the vault it serves and its staging
\* directory: the server is started in apps/api and falls back to the vault
\* at the root of the repository.
ServerCwd == Abs(<<"repo", "apps", "api">>)

VAULT == Abs(<<"repo", ".vault">>)

UPLOADS == path_resolve(ServerCwd, Rel(<<".uploads">>))

Thrown == [ok |-> FALSE, path |-> Abs(<<>>)]

\* A join that returns whatever the path resolves to.
safeJoin_Unchecked(baseDir, targetPath) ==
    [ok |-> TRUE, path |-> path_resolve(ServerCwd, path_join(baseDir, PathSegs(targetPath, <<>>)))]

\* safeJoin(baseDir, targetPath): throws when the result leaves baseDir
safeJoin(baseDir, targetPath) ==
    LET resolved == path_resolve(ServerCwd, path_join(baseDir, PathSegs(targetPath, <<>>)))
        base     == path_resolve(ServerCwd, baseDir)
    IN IF ~startsWith(resolved, base) THEN Thrown
       ELSE [ok |-> TRUE, path |-> resolved]

\* mustBeInsideVault(p): the resolved path, or null (<<>>)
mustBeInsideVault(p) ==
    LET resolved == path_resolve(ServerCwd, p)
    IN IF startsWith(resolved, path_resolve(ServerCwd, VAULT)) THEN <<resolved>> ELSE <<>>

\* The spellings of the vault directory given to the imports that filled
\* the catalog: the absolute path the server uses, and `--vault .vault`
\* given to the CLI at the root of the repository.
VaultArgs == {VAULT, Rel(<<".vault">>)}

\* The ids a client sends: the id of a stored asset, the id of the empty
\* buffer (well-formed, not stored), and malformed ones: capital digits,
\* 15 and 17 characters, a letter outside a-f, none, and traversals.
RequestIds ==
    { IdChars["imgA"], IdChars["empty"],
      hex_Upper(SubSeq(Sha256["imgA"], 1, 8)),
      slice(IdChars["imgA"], 0, 15),
      Append(IdChars["imgA"], "0"),
      <<"g">> \o slice(IdChars["imgA"], 0, 15),
      <<>>,
      <<".", ".">>,
      <<".", ".", "/", ".", ".", "/", "a", "p", "i">>,
      <<".", ".", "/", "v", "a", "u", "l", "t", ".", "d", "b">> }

\* The file names of the parts a client uploads.
UploadNames ==
    { <<"a", ".", "j", "p", "g">>, <<".", ".">>, <<".">>,
      <<".", ".", "/", "s", "e", "r", "v", "e", "r", ".", "t", "s">>,
      <<"x", "/", ".", ".">> }

\* path.basename(name): the last segment
path_basename(cs) ==
    LET RECURSIVE Last(_, _)
        Last(rest, cur) == IF rest = <<>> THEN cur
                           ELSE IF Head(rest) = "/" THEN Last(Tail(rest), <<>>)
                                ELSE Last(Tail(rest), Append(cur, Head(rest)))
    IN Last(cs, <<>>)

\* .replace(/[^\w.\-]/g, '_') over the characters of the model
sanitize(cs) == [k \in 1..Len(cs) |-> IF cs[k] \in {"/", " ", "(", ")"} THEN "_" ELSE cs[k]]

\* The files on disk the endpoints may find: the thumbnail, the artifact and
\* the backup of the stored asset, and the files around the vault.
StoredChars == IdChars["imgA"]

\* path.join(yymmDir(dirs.images, createdTs), `${id}.avif`) below the vault
StoredArtifact ==
    LET dir == yymmDir("images", Dec2023)
    IN <<dir[1], Join(dir[2]), Join(dir[3]), Join(StoredChars \o <<".", "a", "v", "i", "f">>)>>

BackupEntries(dir) ==
    IF dir = Abs(VAULT.segs \o <<"backups", Join(StoredChars)>>) THEN <<"a.jpg">> ELSE <<>>

Disk ==
    { Abs(VAULT.segs \o <<"thumbs", Join(StoredChars \o <<".", "w", "e", "b", "p">>)>>),
      Abs(VAULT.segs \o StoredArtifact),
      Abs(VAULT.segs \o <<"backups", Join(StoredChars)>>),
      Abs(VAULT.segs \o <<"backups", Join(StoredChars), "a.jpg">>),
      Abs(VAULT.segs \o <<"vault.db">>),
      Abs(ServerCwd.segs \o <<"server.ts">>) }

\* The reply to a request, with what serving it touched: the paths handed
\* to fs and whether the catalog was opened.
Reply(op, arg, code, touched, catalog) ==
    [op |-> op, arg |-> arg, code |-> code, touched |-> touched, catalog |-> catalog]

Found(p) == IF p \in Disk THEN 200 ELSE 404

\* GET /api/thumb/:id
GetThumb(id) ==
    IF ~isValidId(id) THEN Reply("thumb", id, 400, {}, FALSE)
    ELSE LET p == safeJoin(path_join(VAULT, <<"thumbs">>), id \o <<".", "w", "e", "b", "p">>)
         IN IF ~p.ok THEN Reply("thumb", id, 500, {}, FALSE)
            ELSE Reply("thumb", id, Found(p.path), {p.path}, FALSE)

\* db.prepare('SELECT vault_path, media_type FROM asset WHERE id=?').get(id)
RowOf(tbl, id) == {x \in tbl : x.id = Join(id)}

\* GET /api/file/:id of apps/api/src/server.ts
GetFile(id) ==
    IF ~isValidId(id) THEN Reply("file", id, 400, {}, FALSE)
    ELSE IF RowOf(asset, id) = {} THEN Reply("file", id, 404, {}, TRUE)
         ELSE LET row == CHOOSE x \in RowOf(asset, id) : TRUE
                  p   == path_resolve(ServerCwd, row.vault_path)
              IN Reply("file", id, Found(p), {p}, TRUE)

\* GET /api/file/:id of the later copy of the server
GetFileInsideVault(id) ==
    IF ~isValidId(id) THEN Reply("fileInsideVault", id, 400, {}, FALSE)
    ELSE IF RowOf(asset, id) = {} THEN Reply("fileInsideVault", id, 404, {}, TRUE)
         ELSE LET row  == CHOOSE x \in RowOf(asset, id) : TRUE
                  safe == mustBeInsideVault(row.vault_path)
              IN IF safe = <<>> THEN Reply("fileInsideVault", id, 404, {}, TRUE)
                 ELSE Reply("fileInsideVault", id, Found(safe[1]), {safe[1]}, TRUE)

\* GET /api/backup/:id
GetBackup(id) ==
    IF ~isValidId(id) THEN Reply("backup", id, 400, {}, FALSE)
    ELSE LET dir == safeJoin(path_join(VAULT, <<"backups">>), id)
         IN IF ~dir.ok THEN Reply("backup", id, 500, {}, FALSE)
            ELSE IF dir.path \notin Disk THEN Reply("backup", id, 404, {dir.path}, FALSE)
            ELSE LET files == BackupEntries(dir.path)
                 IN IF files = <<>> THEN Reply("backup", id, 404, {dir.path}, FALSE)
                    ELSE LET full == path_join(dir.path, <<files[1]>>)
                         IN Reply("backup", id, 200, {dir.path, full}, FALSE)

\* POST /api/upload with one file part
UploadPart(filename) ==
    LET base == sanitize(path_basename(filename))
        dest == safeJoin(UPLOADS, base)
    IN IF ~dest.ok THEN Reply("upload", filename, 500, {}, FALSE)
       ELSE Reply("upload", filename, 200, {dest.path}, FALSE)

Requested == resp.op # "none"

ServeThumb == ~Requested /\ \E id \in RequestIds : resp' = GetThumb(id)

ServeFile == ~Requested /\ \E id \in RequestIds : resp' = GetFile(id)

ServeFileInsideVault == ~Requested /\ \E id \in RequestIds : resp' = GetFileInsideVault(id)

ServeBackup == ~Requested /\ \E id \in RequestIds : resp' = GetBackup(id)

ServeUpload == ~Requested /\ \E n \in UploadNames : resp' = UploadPart(n)

\* The next request of the same client session.
ServeNext == Requested /\ resp' = Reply("none", <<>>, 0, {}, FALSE)

NextServe ==
    /\ \/ ServeThumb
       \/ ServeFile
       \/ ServeFileInsideVault
       \/ ServeBackup
       \/ ServeUpload
       \/ ServeNext
    /\ UNCHANGED <<asset, index_terms, rowBy, vaultFiles, thumbs, backups, uploads, run,
                   started, faultsLeft, vault>>

\* A vault holding one asset, imported with either spelling of the vault
\* directory: vault_path is path.join(vaultDir, 'images', yy, mm, id.avif).
InitServe ==
    /\ \E dir \in VaultArgs, preset \in Presets, o \in 1..MaxBytes, v \in 1..MaxBytes :
          asset = {[id |-> Join(StoredChars), orig_path |-> <<"src", NameA>>,
                    vault_path |-> path_join(dir, StoredArtifact),
                    media_type |-> "image", created_ts |-> Dec2023,
                    bytes_orig |-> o, bytes_vault |-> v,
                    quality_preset |-> preset, state |-> "verified"]}
    /\ index_terms = SetToBag({<<Join(StoredChars), Digits(getFullYear(Dec2023))>>})
    /\ rowBy = Empty
    /\ vaultFiles = Empty
    /\ thumbs = {}
    /\ backups = Empty
    /\ uploads = Empty
    /\ run = [r \in Runs |-> IdleRun]
    /\ started = 0
    /\ faultsLeft = 0
    /\ resp = Reply("none", <<>>, 0, {}, FALSE)
    /\ vault = ensureVaultLayout(NoVault, Dec2023)

SpecServe == InitServe /\ [][NextServe]_vars


(***************************************************************************)
(* The identification step of a pass over two files: buf is read from the  *)
(* file and idFromBuffer(buf) is computed.  The bytes of a file are        *)
(* represented by their digest.                                            *)
(***************************************************************************)
ByteSamples == {0, 9, 10, 15, 16, 160, 255}

Digests ==
    {Sha256[b] : b \in Buffers}
    \cup {<<hi, 176, 196, 66, 152, 252, 28, lo, 154, 251>> : hi, lo \in ByteSamples}

\* const buf = fs.readFileSync(file); const id = idFromBuffer(buf)
IdOfFile(file) == idOfDigest(file.sha256)

InitId ==
    /\ \E d1, d2 \in Digests, n \in {NameA, NameC}, t \in {Dec2023, Jan2024} :
          resp = [op |-> "files",
                  a |-> [name |-> NameA, mtime |-> Dec2023, sha256 |-> d1],
                  b |-> [name |-> n, mtime |-> t, sha256 |-> d2],
                  idA |-> <<>>, idB |-> <<>>, accepted |-> FALSE]
    /\ asset = {}
    /\ index_terms = EmptyBag
    /\ rowBy = Empty
    /\ vaultFiles = Empty
    /\ thumbs = {}
    /\ backups = Empty
    /\ uploads = Empty
    /\ run = [r \in Runs |-> IdleRun]
    /\ started = 0
    /\ faultsLeft = 0
    /\ vault = NoVault

\* Both files are identified, and the first id is sent to the API.
IdStep ==
    /\ resp.op = "files"
    /\ resp' = [resp EXCEPT !.op = "ids", !.idA = IdOfFile(resp.a), !.idB = IdOfFile(resp.b),
                            !.accepted = isValidId(IdOfFile(resp.a))]
    /\ UNCHANGED <<asset, index_terms, rowBy, vaultFiles, thumbs, backups, uploads, run,
                   started, faultsLeft, vault>>

SpecId == InitId /\ [][IdStep]_vars


(***************************************************************************)
(* Imports started with whatever preset the caller supplies: --preset on   *)
(* the command line, "preset" in the JSON body of POST /api/compress.      *)
(* <<>> is an absent value.                                                *)
(***************************************************************************)
SuppliedPresets == {<<>>} \cup {<<p>> : p \in Presets \cup {"ultra", ""}}

\* .option('preset', { choices: ['standard','high','max'], default: 'standard' }):
\* the preset handed to importFolder, or <<>> when yargs refuses the value
PresetOfArgv(supplied) ==
    IF supplied = <<>> THEN <<"standard">>
    ELSE IF supplied[1] \in {"standard", "high", "max"} THEN supplied ELSE <<>>

\* const preset = body.preset || 'standard'
PresetOfBody(supplied) ==
    IF supplied = <<>> \/ supplied[1] = "" THEN "standard" ELSE supplied[1]

\* photovault import --vault .. --src .. [--preset ..]
ImportCmd(r) ==
    \E supplied \in SuppliedPresets :
        /\ PresetOfArgv(supplied) # <<>>
        /\ StartImportWith(r, "cli", PresetOfArgv(supplied)[1])

\* POST /api/compress { preset? }
CompressRequest(r) ==
    \E supplied \in SuppliedPresets : StartImportWith(r, "http", PresetOfBody(supplied))

NextPreset ==
    \/ \E r \in Runs : Quiet /\ ImportCmd(r)
    \/ \E r \in Runs : Quiet /\ CompressRequest(r)
    \/ \E r \in Runs : Enumerate(r)
    \/ \E r \in Runs : BeginFile(r)
    \/ \E r \in Runs : SharpDone(r)
    \/ \E r \in Runs : ThumbDone(r)
    \/ \E r \in Runs : ExifDone(r)
    \/ \E r \in Runs : FfmpegDone(r)
    \/ \E r \in Runs : Finish(r)
    \/ Quiet /\ Upload

SpecPreset == InitWith(0) /\ [][NextPreset]_vars


(***************************************************************************)
(* Requests and commands as the processes take them: the server accepts a  *)
(* request while the handler of another is suspended at an await, and the  *)
(* CLI is a process of its own.  Nothing in the handlers waits for another *)
(* import to end.                                                          *)
(***************************************************************************)
NextOverlap ==
    \/ \E r \in Runs : StartImport(r)
    \/ \E r \in Runs : Enumerate(r)
    \/ \E r \in Runs : BeginFile(r)
    \/ \E r \in Runs : SharpDone(r)
    \/ \E r \in Runs : ThumbDone(r)
    \/ \E r \in Runs : ExifDone(r)
    \/ \E r \in Runs : FfmpegDone(r)
    \/ \E r \in Runs : Finish(r)
    \/ Upload

SpecOverlap == InitWith(0) /\ [][NextOverlap]_vars


(***************************************************************************)
(* POST /api/upload of the later copy of the server: the destination is    *)
(* the first free name, and the file is created exclusively.  Requests are *)
(* served concurrently: the open of the destination happens after the      *)
(* handler has chosen it, and the content arrives after the open.          *)
(***************************************************************************)
\* uploads started in a behaviour
MaxUploads == 3

Uploaders == 1..2

\* The position of the last "." that starts an extension, or 0.
LastDot(cs) ==
    LET dots == {k \in 2..Len(cs) : cs[k] = "."}
    IN IF dots = {} THEN 0 ELSE CHOOSE k \in dots : \A d \in dots : d <= k

\* path.extname(dest)
path_extname(cs) == IF LastDot(cs) = 0 THEN <<>> ELSE SubSeq(cs, LastDot(cs), Len(cs))

\* path.basename(dest, ext)
BaseWithoutExt(cs) == SubSeq(cs, 1, Len(cs) - Len(path_extname(cs)))

\* `${name}(${i})${ext}`
Numbered(dest, i) ==
    BaseWithoutExt(dest) \o <<"(">> \o Digits(i) \o <<")">> \o path_extname(dest)

\* A destination that is used as it is.
uniquePath_Same(dir, dest) == dest

RECURSIVE NextFree(_, _, _)
\* while (fs.existsSync(cand)) { i++; ... }
NextFree(dir, dest, i) ==
    IF Numbered(dest, i) \notin DOMAIN dir THEN Numbered(dest, i)
    ELSE NextFree(dir, dest, i + 1)

\* uniquePath(dest)
uniquePath(dir, dest) == IF dest \notin DOMAIN dir THEN dest ELSE NextFree(dir, dest, 1)

\* The file names clients send: one twice over, one that already carries a
\* number, one without extension.
PartNames ==
    { NameA, <<"a", "(", "1", ")", ".", "j", "p", "g">>, <<"R", "E", "A", "D">> }

IdleUpload == [pc |-> "idle", dest |-> <<>>, bytes |-> NULL, no |-> 0]

\* A staged file being written: created, no content yet.
Created(no) == [bytes |-> NULL, mtime |-> UploadTime, by |-> no]

\* The handler takes a file part: base name, sanitized, joined to the staging
\* directory, made unique; then createWriteStream(dest, { flags: 'wx' }).
ChooseDest(u) ==
    /\ resp.req[u].pc = "idle"
    /\ resp.started < MaxUploads
    /\ \E filename \in PartNames, bytes \in {"imgA", "imgB"} :
         LET base == sanitize(path_basename(filename))
         IN resp' = [resp EXCEPT !.started = @ + 1,
                                 !.req[u] = [pc |-> "opening", dest |-> uniquePath(uploads, base),
                                             bytes |-> bytes, no |-> resp.started + 1]]
    /\ UNCHANGED uploads

\* The open with flags 'wx': EEXIST when the destination exists, else the
\* file is created.
OpenDest(u) ==
    /\ resp.req[u].pc = "opening"
    /\ IF resp.req[u].dest \in DOMAIN uploads
       THEN /\ resp' = [resp EXCEPT !.req[u].pc = "failed"]
            /\ UNCHANGED uploads
       ELSE /\ resp' = [resp EXCEPT !.req[u].pc = "writing"]
            /\ uploads' = Put(uploads, resp.req[u].dest, Created(resp.req[u].no))

\* part.file.pipe(ws) ... 'finish'
WriteDone(u) ==
    /\ resp.req[u].pc = "writing"
    /\ resp' = [resp EXCEPT !.req[u].pc = "stored"]
    /\ uploads' = [uploads EXCEPT ![resp.req[u].dest].bytes = resp.req[u].bytes]

\* The reply is sent (ok, or 500 after EEXIST); the connection serves the
\* next request.
UploadReplied(u) ==
    /\ resp.req[u].pc \in {"stored", "failed"}
    /\ resp' = [resp EXCEPT !.req[u] = IdleUpload]
    /\ UNCHANGED uploads

NextUpload ==
    /\ \E u \in Uploaders : ChooseDest(u) \/ OpenDest(u) \/ WriteDone(u) \/ UploadReplied(u)
    /\ UNCHANGED <<asset, index_terms, rowBy, vaultFiles, thumbs, backups, run,
                   started, faultsLeft, vault>>

InitUpload ==
    /\ resp = [op |-> "upload", started |-> 0, req |-> [u \in Uploaders |-> IdleUpload]]
    /\ uploads = Empty
    /\ asset = {}
    /\ index_terms = EmptyBag
    /\ rowBy = Empty
    /\ vaultFiles = Empty
    /\ thumbs = {}
    /\ backups = Empty
    /\ run = [r \in Runs |-> IdleRun]
    /\ started = 0
    /\ faultsLeft = 0
    /\ vault = NoVault

SpecUpload == InitUpload /\ [][NextUpload]_vars


(***************************************************************************)
(* The per-route limiter of the later copy of the server: one bucket per   *)
(* key (client address, route, max, window).  The preHandler runs without  *)
(* an await, so each request is one step.  Time is Date.now().             *)
(***************************************************************************)
\* the latest time of a behaviour
MaxNow == 6

\* The keys of the model: two clients on a route limited to 2 requests per
\* window of 3, and one route limited to 1 request per window of 2.
LimiterKeys ==
    { [ip |-> "10.0.0.1", route |-> "/api/assets", max |-> 2, windowMs |-> 3],
      [ip |-> "10.0.0.2", route |-> "/api/assets", max |-> 2, windowMs |-> 3],
      [ip |-> "10.0.0.1", route |-> "/api/compress", max |-> 1, windowMs |-> 2] }

\* A limiter that refuses only below zero.
limiter_BelowZero(buckets, key, now) ==
    LET fresh == key \notin DOMAIN buckets \/ now >= buckets[key].resetAt
        b     == IF fresh THEN [tokens |-> key.max, resetAt |-> now + key.windowMs, admitted |-> 0]
                 ELSE buckets[key]
    IN IF b.tokens < 0
       THEN [buckets |-> Put(buckets, key, b), code |-> 429]
       ELSE [buckets |-> Put(buckets, key, [b EXCEPT !.tokens = @ - 1, !.admitted = @ + 1]),
             code |-> 200]

\* limiter(max, windowMs)(req, reply) at time now: the buckets afterwards and
\* the status (429, or 200 when the handler goes on).  `admitted` counts the
\* requests let through since the bucket was made; the code does not keep it.
limiter(buckets, key, now) ==
    LET fresh == key \notin DOMAIN buckets \/ now >= buckets[key].resetAt
        b     == IF fresh THEN [tokens |-> key.max, resetAt |-> now + key.windowMs, admitted |-> 0]
                 ELSE buckets[key]
    IN IF b.tokens <= 0
       THEN [buckets |-> Put(buckets, key, b), code |-> 429]
       ELSE [buckets |-> Put(buckets, key, [b EXCEPT !.tokens = @ - 1, !.admitted = @ + 1]),
             code |-> 200]

\* A request reaches a limited route.
LimitedRequest ==
    \E key \in LimiterKeys :
        LET out == limiter(resp.buckets, key, resp.now)
        IN resp' = [resp EXCEPT !.buckets = out.buckets,
                                !.last = <<[key |-> key, code |-> out.code, at |-> resp.now]>>]

\* Time passes.
Tick ==
    /\ resp.now < MaxNow
    /\ resp' = [resp EXCEPT !.now = @ + 1, !.last = <<>>]

NextLimiter ==
    /\ LimitedRequest \/ Tick
    /\ UNCHANGED <<asset, index_terms, rowBy, vaultFiles, thumbs, backups, uploads, run,
                   started, faultsLeft, vault>>

InitLimiter ==
    /\ resp = [op |-> "limiter", now |-> 0, buckets |-> Empty, last |-> <<>>]
    /\ asset = {}
    /\ index_terms = EmptyBag
    /\ rowBy = Empty
    /\ vaultFiles = Empty
    /\ thumbs = {}
    /\ backups = Empty
    /\ uploads = Empty
    /\ run = [r \in Runs |-> IdleRun]
    /\ started = 0
    /\ faultsLeft = 0
    /\ vault = NoVault

SpecLimiter == InitLimiter /\ [][NextLimiter]_vars


\* A step of the import of a slot.
RunStep(r) ==
    \/ Enumerate(r) \/ BeginFile(r) \/ SharpDone(r) \/ ThumbDone(r)
    \/ ExifDone(r) \/ FfmpegDone(r) \/ Finish(r)

\* The awaited calls (glob, encoders, metadata parser) settle and the event
\* loop resumes the import.
FairSpec == Spec /\ \A r \in Runs : WF_vars(RunStep(r))

(***************************************************************************)
(* Properties of the import pipeline.                                      *)
(***************************************************************************)
LogOf(r) == run[r].log

Passes == {<<r, k>> \in Runs \X (1..Len(NameOrder)) : k <= Len(LogOf(r))}

PassRes(p) == LogOf(p[1])[p[2]].res

PassId(p) == LogOf(p[1])[p[2]].id

PassName(p) == run[p[1]].files[p[2]]

\* How rowBy names the pass.
PassKey(p) == <<run[p[1]].no, p[2]>>

RowsOf(tbl, id) == {x \in tbl : x.id = id}

\* The last log entry of a run says that its pass wrote the row.
WroteRow(rec) ==
    /\ rec.log # <<>>
    /\ LET e == rec.log[Len(rec.log)]
       IN e.res = "done" \/ (e.res = "failed" /\ e.step \in {"term", "term2", "backup"})

\* C1: the asset table holds at most one row per content id, and a pass that
\* writes the row of an id leaves exactly the row of that pass: every column
\* carries the value the pass computed, whatever row the id had before.
C1_OneRowPerId == \A x, y \in asset : x.id = y.id => x = y

C1_RowIsLastPass ==
    \A r \in Runs :
       (/\ run[r].pc \in {"exif", "ffmpeg"}
        /\ run'[r].pc = "next"
        /\ WroteRow(run'[r]))
       => LET rec  == run[r]
              id   == idFromBuffer(rec.buf)
              img  == rec.pc = "exif"
              path == ArtifactPath(IF img THEN "images" ELSE "videos", rec.createdTs, id,
                                   IF img THEN ".avif" ELSE ".mp4")
              ex   == IF img THEN extractExif(rec.buf).createdTs ELSE <<>>
          IN RowsOf(asset', id) =
               { [id |-> id,
                  orig_path |-> FilePath(rec.kind, rec.files[rec.i]),
                  vault_path |-> path,
                  media_type |-> IF img THEN "image" ELSE "video",
                  created_ts |-> IF ex # <<>> THEN ex[1] ELSE rec.createdTs,
                  bytes_orig |-> BufLen[rec.buf],
                  bytes_vault |-> vaultFiles'[path].len,
                  quality_preset |-> rec.preset,
                  state |-> "verified"] }

C1_IdempotentUpsert == []C1_OneRowPerId /\ [][C1_RowIsLastPass]_vars

\* Witness of C1: the same bytes were imported by two passes that reached
\* Done, from different paths, and the one row of the id is the later one's.
C1_Witness ==
    \E p, q \in Passes :
       /\ p # q
       /\ PassRes(p) = "done" /\ PassRes(q) = "done"
       /\ PassId(p) = PassId(q)
       /\ PassName(p) # PassName(q)
       /\ rowBy[PassId(q)] = PassKey(q)
       /\ \E x \in asset : /\ RowsOf(asset, PassId(q)) = {x}
                           /\ x.orig_path = FilePath(run[q[1]].kind, PassName(q))

\* C2: after the initialisation an import is never left by an exception: a
\* run is raised to the caller only before the enumeration, every import in
\* flight ends with its count, and a finished run has handled every
\* enumerated file, also the files after one that failed.
C2_NoRaise ==
    \A r \in Runs :
       /\ run[r].pc = "raised" => (run[r].i = 0 /\ run[r].log = <<>>)
       /\ run[r].pc \in {"next", "done"} => run[r].i = Len(run[r].log) + 1
       /\ run[r].pc = "done" => Len(run[r].log) = Len(run[r].files)

C3_FailedPassWritesNoRow ==
    \A p \in Passes :
       PassRes(p) = "failed" => ~ \E x \in asset : rowBy[x.id] = PassKey(p)

\* Done as the pipeline defines it: the file was identified, transcoded,
\* cataloged and backed up, and no step raised.
ReachedDone(p) ==
    /\ PassRes(p) = "done"
    /\ PassId(p) \in DOMAIN rowBy
    /\ <<PassId(p), PassName(p)>> \in DOMAIN backups

\* C4 (as claimed): the count a batch returns is the number of its files
\* that reached Done.
C4_CountIsDone ==
    \A r \in Runs :
       run[r].pc = "done" =>
          run[r].converted = Cardinality({p \in Passes : p[1] = r /\ ReachedDone(p)})

\* C5 (as claimed): every file counted as converted has its original bytes
\* at backups/<id>/<file name>.
C5_CountedIsBackedUp ==
    \A p \in Passes :
       PassRes(p) = "done" =>
          /\ <<PassId(p), PassName(p)>> \in DOMAIN backups
          /\ idFromBuffer(backups[<<PassId(p), PassName(p)>>]) = PassId(p)

\* A name that is neither an image nor a video by its extension.
IgnoredName(n) == ~ \E e \in ImageExts \cup VideoExts : EndsWith(toLowerCase(n), e)

MediaCount(files) == Cardinality({k \in 1..Len(files) : ~IgnoredName(files[k])})

C7_PresetOrder ==
    \A r \in Runs :
       run[r].pc = "sharp" =>
          /\ run[r].preset = "high" => run[r].qual < Qual("standard")
          /\ run[r].preset = "max" => run[r].qual < Qual("high")

\* The search terms of a text: the maximal runs of non-whitespace characters
\* of the lower-cased text.
SearchTerms(text) ==
    LET l == toLowerCase(text)
        ws(k) == k < 1 \/ k > Len(l) \/ l[k] \in Whitespace
    IN  {SubSeq(l, i, j) : <<i, j>> \in
            {ij \in (1..Len(l)) \X (1..Len(l)) :
                /\ ij[1] <= ij[2]
                /\ \A k \in ij[1]..ij[2] : ~ws(k)
                /\ ws(ij[1] - 1) /\ ws(ij[2] + 1)}}

\* The ids of the assets with an index term that contains a search term.
Hits(text) ==
    {a.id : a \in {x \in asset :
                     \E t \in BagToSet(index_terms) :
                        t[1] = x.id /\ \E w \in SearchTerms(text) : Contains(t[2], w)}}

RowIds(rows) == {rows[k].id : k \in 1..Len(rows)}

NewestFirst(rows) ==
    \A i, j \in 1..Len(rows) : i < j => rows[i].created_ts >= rows[j].created_ts

Min(a, b) == IF a <= b THEN a ELSE b

TextAnswerOk(r) ==
    (r.op \in {"assets", "query"} /\ r.text # <<>> /\ ~r.error) =>
       /\ RowIds(r.rows) \subseteq Hits(r.text)
       /\ Len(r.rows) = Min(TextLimit, Cardinality(Hits(r.text)))
       /\ Cardinality(RowIds(r.rows)) = Len(r.rows)
       /\ NewestFirst(r.rows)

\* C8 (as claimed): a text query of the API or of the CLI, when answered,
\* returns each asset that has an index term containing one of the
\* whitespace-separated, lower-cased search terms exactly once, newest
\* first, and nothing else, up to the cap of text queries.
C8_TextQuery == [][resp' # resp => TextAnswerOk(resp')]_vars

NoTextAnswerOk(r) ==
    (r.op \in {"assets", "query", "earlier"} /\ r.text = <<>>) =>
       /\ ~r.error
       /\ RowIds(r.rows) \subseteq {a.id : a \in asset}
       /\ Len(r.rows) = Min(NoTextLimit, Cardinality(asset))
       /\ Cardinality(RowIds(r.rows)) = Len(r.rows)
       /\ NewestFirst(r.rows)
       /\ \A k \in 1..Len(r.rows) :
             \A a \in asset :
                a.id \notin RowIds(r.rows) => r.rows[k].created_ts >= a.created_ts

\* C9 (as claimed): a query without text is answered with the newest assets,
\* newest first, up to the cap of queries without text; with the empty
\* catalog the answer is the empty sequence.
C9_NoTextNewestFirst == [][resp' # resp => NoTextAnswerOk(resp')]_vars

\* C10: every item of the assets listing reports saved_bytes =
\* max(0, bytes_orig - bytes_vault) over the sizes of its catalog row, a
\* missing size counting as 0: never negative, 0 when bytes_vault >= bytes_orig.
C10_SavedBytes ==
    resp.op = "assets" =>
       \A k \in 1..Len(resp.rows) :
          LET it == resp.rows[k]
              o  == IF it.bytes_orig = NullInt THEN 0 ELSE it.bytes_orig
              v  == IF it.bytes_vault = NullInt THEN 0 ELSE it.bytes_vault
          IN  /\ \E a \in asset : /\ a.id = it.id
                                  /\ a.bytes_orig = it.bytes_orig
                                  /\ a.bytes_vault = it.bytes_vault
              /\ it.saved_bytes >= 0
              /\ v >= o => it.saved_bytes = 0
              /\ o > v => it.saved_bytes = o - v

\* Witness of C10: a listed row without bytes_orig whose artifact has bytes;
\* it reports 0.
C10_Witness ==
    /\ resp.op = "assets"
    /\ \E k \in 1..Len(resp.rows) :
          /\ resp.rows[k].bytes_orig = NullInt
          /\ resp.rows[k].bytes_vault > 0
          /\ resp.rows[k].saved_bytes = 0

\* The tag has a date that can be read.
ReadableDate(v) == v # <<>> /\ v[1] # NotADate

\* C11 (as claimed): the created_ts of an image row is the capture time taken
\* from DateTimeOriginal, else CreateDate, else ModifyDate, and it is the
\* modification time of the file when the metadata is absent or cannot be
\* read.  (Where a tag that cannot be read stands before one that can, either
\* answer is accepted.)
C11_CreatedTs ==
    (resp.op = "exif" /\ ~resp.failed) =>
       LET d    == resp.data
           tags == <<d.DateTimeOriginal, d.CreateDate, d.ModifyDate>>
           good == {k \in 1..3 : ReadableDate(tags[k])}
       IN  /\ good = {} => resp.created_ts = resp.mtime
           /\ good # {} =>
                 LET k == CHOOSE i \in good : \A j \in good : i <= j
                 IN  IF \A j \in 1..(k - 1) : tags[j] = <<>>
                     THEN resp.created_ts = tags[k][1]
                     ELSE resp.created_ts \in {tags[k][1], resp.mtime}

\* C12: whatever the parser does with the bytes, throwing included,
\* extractExif resolves, with an empty result when the parser threw, so the
\* pass does not fail at the metadata step and the row gets the modification
\* time of the file.
C12_ExifNeverFails ==
    resp.op = "exif" =>
       /\ ~resp.failed
       /\ resp.data.kind \in {"throws", "undefined"} =>
             (resp.ex = <<>> /\ resp.created_ts = resp.mtime)

\* Witness of C12: the parser threw and the step went through.
C12_Witness ==
    /\ resp.op = "exif"
    /\ resp.data.kind = "throws"
    /\ ~resp.failed
    /\ resp.created_ts = resp.mtime

\* C13: a call of ensureVaultLayout (by the init command or at the start of
\* an import) leaves the five directories present, removes none, and leaves
\* a manifest that exists as it is; on a complete vault it changes nothing.
C13_LayoutStep ==
    started' # started =>
       /\ LayoutDirs \subseteq vault'.dirs
       /\ vault.dirs \subseteq vault'.dirs
       /\ vault'.manifest # <<>>
       /\ vault.manifest # <<>> => vault'.manifest = vault.manifest
       /\ (vault.manifest # <<>> /\ LayoutDirs \subseteq vault.dirs) => vault' = vault

C13_LayoutIdempotent == [][C13_LayoutStep]_vars

\* Witness of C13: two commands have called ensureVaultLayout on a new vault
\* and the manifest is the one of the first call.
C13_Witness ==
    /\ started = 2
    /\ vault.manifest = <<DateNow(1)>>

\* C14 (as claimed): a row keeps its media_type: the row of an id in one
\* state is, in the next state, a row of that id with the same media_type.
C14_MediaTypeStep ==
    \A x \in asset : \E y \in asset' : y.id = x.id /\ y.media_type = x.media_type

C14_MediaTypeImmutable == [][C14_MediaTypeStep]_vars

\* C15: a request whose id is not exactly 16 lowercase hex characters is
\* answered 400 with no file and no catalog touched, and every path an
\* endpoint hands to the filesystem lies inside its base directory: thumbs/,
\* backups/<id>/ (or the backups directory itself), the vault root for a
\* recorded vault_path, the staging directory for an upload.
BaseOf(r) ==
    CASE r.op = "thumb"  -> path_join(VAULT, <<"thumbs">>)
      [] r.op = "backup" -> path_join(VAULT, <<"backups">>)
      [] r.op = "upload" -> UPLOADS
      [] OTHER           -> VAULT

C15_RejectedUntouched ==
    resp.op \in {"thumb", "file", "fileInsideVault", "backup"} /\ ~ID_REGEX_test(resp.arg)
        => resp.code = 400 /\ resp.touched = {} /\ ~resp.catalog

C15_InsideBase ==
    resp.op # "none" => \A p \in resp.touched : startsWith(p, BaseOf(resp))

C15_NoEscape == C15_RejectedUntouched /\ C15_InsideBase

\* C16: no step removes an asset id, an index-term row, a vault artifact, a
\* thumbnail or a backup; and each step that ends a pass successfully adds
\* one more copy of the year term of the row it wrote, so k successful
\* passes over one content leave at least k year-term rows.
SuccessfulPass(r) ==
    /\ run'[r].no = run[r].no
    /\ Len(run'[r].log) = Len(run[r].log) + 1
    /\ run'[r].log[Len(run'[r].log)].res = "done"

YearTermOfPass(r) ==
    LET id  == run'[r].log[Len(run'[r].log)].id
        row == CHOOSE x \in asset' : x.id = id
    IN <<id, YearTerm(row.created_ts)>>

C16_GrowStep ==
    /\ {x.id : x \in asset} \subseteq {x.id : x \in asset'}
    /\ index_terms \sqsubseteq index_terms'
    /\ DOMAIN vaultFiles \subseteq DOMAIN vaultFiles'
    /\ thumbs \subseteq thumbs'
    /\ DOMAIN backups \subseteq DOMAIN backups'
    /\ \A r \in Runs : SuccessfulPass(r) =>
          /\ \E x \in asset' : x.id = YearTermOfPass(r)[1]
          /\ CopiesIn(YearTermOfPass(r), index_terms')
                 >= CopiesIn(YearTermOfPass(r), index_terms) + 1

C16_CatalogOnlyGrows == [][C16_GrowStep]_vars

\* The same bytes imported three times (as a.jpg and b.JPG of one run and
\* again in a later run): three rows of the year term, one asset row.
C16_Witness ==
    /\ started = 2
    /\ CopiesIn(<<idFromBuffer("imgA"), Digits(getFullYear(Jun2022))>>, index_terms) >= 3
    /\ Cardinality(RowsOf(asset, idFromBuffer("imgA"))) = 1

\* C17: the id of a file depends on its bytes alone (equal bytes give equal
\* ids whatever the name and the modification time), every content has an
\* id, and every id is exactly 16 characters out of 0-9 and a-f, which the
\* API's id validator accepts; so is every id of the tabulated buffers,
\* the empty buffer included.
LowerHexChars == {"0", "1", "2", "3", "4", "5", "6", "7", "8", "9", "a", "b", "c", "d", "e", "f"}

SixteenLowerHex(cs) == Len(cs) = 16 /\ \A k \in 1..Len(cs) : cs[k] \in LowerHexChars

C17_IdOfBytes ==
    /\ resp.op = "ids" =>
          /\ resp.a.sha256 = resp.b.sha256 => resp.idA = resp.idB
          /\ SixteenLowerHex(resp.idA) /\ SixteenLowerHex(resp.idB)
          /\ resp.accepted
    /\ \A b \in Buffers : SixteenLowerHex(IdChars[b]) /\ isValidId(IdChars[b])

\* Equal bytes under another name and another date: the same id.
C17_Witness ==
    /\ resp.op = "ids"
    /\ resp.a.sha256 = resp.b.sha256
    /\ resp.a.name # resp.b.name
    /\ resp.a.mtime # resp.b.mtime
    /\ resp.idA = resp.idB
    /\ resp.accepted

\* C18: the quality_preset of every asset row is 'standard', 'high' or
\* 'max', whatever preset the caller of the CLI import or of the compress
\* endpoint supplies.
C18_PresetDomain == \A x \in asset : x.quality_preset \in {"standard", "high", "max"}

\* C19: within one run the files are processed one at a time in the order
\* of the enumeration: when file i is begun or in flight every file before
\* it has ended (done, failed, ignored or skipped by the saving guard), the ends were recorded in the
\* order of the enumeration, the index moves by one file at a time, and a
\* step writes the catalog for the file in flight of the run that takes it.
Looping(r) == run[r].pc \in {"next", "sharp", "thumb", "exif", "ffmpeg", "done"}

FileInFlight(r) == run[r].pc \in {"sharp", "thumb", "exif", "ffmpeg"}

C19_InOrder ==
    \A r \in Runs : Looping(r) =>
        /\ Len(run[r].log) = run[r].i - 1
        /\ run[r].i <= Len(run[r].files) + 1
        /\ \A k \in 1..Len(run[r].log) : run[r].log[k].res \in {"done", "failed", "ignored", "guard"}
        /\ FileInFlight(r) =>
              /\ run[r].i <= Len(run[r].files)
              /\ run[r].buf = Folder(run[r].kind)[run[r].files[run[r].i]].bytes
        /\ run[r].pc # "done" =>
              \A k \in 1..Len(run[r].log) :
                  run[r].log[k].id # NULL =>
                      run[r].log[k].id = idFromBuffer(Folder(run[r].kind)[run[r].files[k]].bytes)

C19_LoopStep ==
    /\ \A r \in Runs : Looping(r) /\ run'[r].no = run[r].no =>
          /\ run'[r].files = run[r].files
          /\ run'[r].i \in {run[r].i, run[r].i + 1}
          /\ run'[r].i = run[r].i + 1 => SubSeq(run'[r].log, 1, Len(run[r].log)) = run[r].log
          /\ run'[r].i = run[r].i => run'[r].log = run[r].log
    /\ asset' # asset \/ index_terms' # index_terms =>
          \E r \in Runs :
              /\ FileInFlight(r)
              /\ run'[r].i = run[r].i + 1
              /\ \A x \in asset' \ asset : x.id = idFromBuffer(run[r].buf)
              /\ \A t \in BagToSet(index_terms') : 
                    CopiesIn(t, index_terms') # CopiesIn(t, index_terms) => t[1] = idFromBuffer(run[r].buf)

C19_OneFileAtATime == []C19_InOrder /\ [][C19_LoopStep]_vars

\* The third file of a run is in flight after the first ended and the
\* second failed.
C19_Witness ==
    \E r \in Runs :
        /\ run[r].pc = "ffmpeg"
        /\ run[r].i = 3
        /\ run[r].log[1].res = "done"
        /\ run[r].log[2].res = "failed"

\* C20: at most one import is active on the vault at any time: no compress
\* request enumerates or processes staged files while another import is
\* between its start and its end.
ActiveImports == {r \in Runs : InFlight(r)}

C20_OnePipeline == Cardinality(ActiveImports) <= 1

\* C21: the destination of an artifact is determined by the content id: the
\* vault holds at most one artifact file per id, and a pass over the same
\* bytes records the path an earlier pass recorded.
IdOfPath(path) == path[4]

C21_OnePathPerId ==
    /\ \A p, q \in DOMAIN vaultFiles : IdOfPath(p) = IdOfPath(q) => p = q
    /\ \A x \in asset : \A p \in DOMAIN vaultFiles : IdOfPath(p) = x.id => p = x.vault_path

\* C22: the year/month bucket of the vault_path of every image row is the
\* bucket of the created_ts stored in that row.
C22_BucketOfCreatedTs ==
    \A x \in asset :
        x.media_type = "image" =>
            SubSeq(x.vault_path, 1, 3) = yymmDir("images", x.created_ts)

\* C23: in the compress pipeline an image whose output is not at least 2%
\* smaller than the original (100 * compressed >= 98 * original) is not
\* committed: the step that ends its encoding writes no artifact, thumbnail,
\* row or term and does not count it, and the file is passed over; so every
\* image row written from the staging directory has
\* 100 * bytes_vault < 98 * bytes_orig.
NotSmaller(r) ==
    /\ run[r].kind = "http"
    /\ run[r].pc = "sharp"
    /\ 100 * AvifLen[run[r].buf][run[r].qual] >= 98 * BufLen[run[r].buf]

C23_GuardStep ==
    \A r \in Runs : NotSmaller(r) /\ run'[r] # run[r] =>
        /\ UNCHANGED <<asset, index_terms, vaultFiles, thumbs, backups>>
        /\ run'[r].converted = run[r].converted
        /\ run'[r].pc = "next"
        /\ run'[r].i = run[r].i + 1

C23_StagedRowsSmaller ==
    \A x \in asset :
        x.media_type = "image" /\ x.orig_path[1] = ".uploads" =>
            100 * x.bytes_vault < 98 * x.bytes_orig

C24_VerifiedHasArtifact ==
    \A x \in asset :
        x.state = "verified" =>
            /\ x.vault_path \in DOMAIN vaultFiles
            /\ vaultFiles[x.vault_path] # PartialFile
            /\ x.media_type = "image" => x.id \in thumbs

\* C25: once no import is in flight, the bytes_vault and the quality_preset
\* of every row describe the file stored at the row's vault_path: the file
\* has that size and, for an image, was encoded at the quality of that
\* preset.
DescribesFile(x, f) ==
    /\ f.len = x.bytes_vault
    /\ x.media_type = "image" => f.qual = Qual(x.quality_preset)

C25_RowDescribesArtifact ==
    Quiet =>
        \A x \in asset :
            x.vault_path \in DOMAIN vaultFiles /\ vaultFiles[x.vault_path] # PartialFile =>
                DescribesFile(x, vaultFiles[x.vault_path])

\* C26: the compress endpoint removes a staged file only if the request
\* converted it: a staged file whose pass failed, was passed over by the size
\* guard or was ignored is still in the staging directory afterwards.
C26_RemovalStep ==
    \A n \in (DOMAIN uploads) \ (DOMAIN uploads') :
        \E r \in Runs :
            /\ run[r].kind = "http"
            /\ \E k \in 1..Len(run[r].log) :
                  run[r].files[k] = n /\ run[r].log[k].res = "done"

C26_RemovesOnlyConverted == [][C26_RemovalStep]_vars

\* C27: an upload never overwrites or truncates a staged file: a file that
\* is in the staging directory stays, keeps its creator, and its content is
\* changed only by its creator, from nothing to the uploaded bytes; the
\* destination an upload chooses is free, and is the sanitized name or its
\* first free numbered form; when two uploads chose one destination, one
\* creates it and the other fails leaving the file as it is.
FirstFreeName(dir, base, dest) ==
    /\ dest \notin DOMAIN dir
    /\ \/ dest = base
       \/ /\ base \in DOMAIN dir
          /\ \E i \in 1..(MaxUploads + 1) :
                /\ dest = Numbered(base, i)
                /\ \A k \in 1..(i - 1) : Numbered(base, k) \in DOMAIN dir

Writer(n) == {u \in Uploaders : resp.req[u].pc = "writing" /\ resp.req[u].dest = n}

C27_UploadStep ==
    /\ \A n \in DOMAIN uploads :
          /\ n \in DOMAIN uploads'
          /\ uploads'[n].by = uploads[n].by
          /\ uploads'[n] # uploads[n] =>
                /\ uploads[n].bytes = NULL
                /\ \E u \in Writer(n) :
                      /\ resp.req[u].no = uploads[n].by
                      /\ uploads'[n].bytes = resp.req[u].bytes
    /\ \A u \in Uploaders :
          /\ resp.req[u].pc = "idle" /\ resp'.req[u].pc = "opening" =>
                \E filename \in PartNames :
                    FirstFreeName(uploads, sanitize(path_basename(filename)), resp'.req[u].dest)
          /\ resp.req[u].pc = "opening" /\ resp.req[u].dest \in DOMAIN uploads =>
                (resp'.req[u] # resp.req[u] => resp'.req[u].pc = "failed" /\ uploads' = uploads)

C28_Buckets ==
    \A key \in DOMAIN resp.buckets :
        /\ resp.buckets[key].tokens \in 0..key.max
        /\ resp.buckets[key].admitted <= key.max

C28_RequestStep ==
    resp'.last # <<>> /\ resp' # resp =>
        LET req == resp'.last[1]
            key == req.key
            due == key \notin DOMAIN resp.buckets \/ req.at >= resp.buckets[key].resetAt
        IN /\ req.code = 429 =>
                /\ ~due => resp'.buckets = resp.buckets
                /\ resp'.buckets[key].tokens = (IF due THEN key.max ELSE resp.buckets[key].tokens)
           /\ due =>
                /\ resp'.buckets[key].resetAt = req.at + key.windowMs
                /\ key.max >= 1 => req.code = 200 /\ resp'.buckets[key].tokens = key.max - 1
           /\ ~due /\ req.code = 200 =>
                /\ resp.buckets[key].tokens >= 1
                /\ resp'.buckets[key].tokens = resp.buckets[key].tokens - 1
                /\ resp'.buckets[key].resetAt = resp.buckets[key].resetAt
           /\ \A other \in DOMAIN resp.buckets : other # key =>
                resp'.buckets[other] = resp.buckets[other]

C28_Limiter == []C28_Buckets /\ [][C28_RequestStep]_vars

\* At time 3, the resetAt of a bucket made at time 0, a request of a key
\* limited to 2 is admitted from a fresh bucket.
C28_Witness ==
    \E key \in DOMAIN resp.buckets :
        /\ key.max = 2
        /\ resp.last # <<>>
        /\ resp.last[1].key = key
        /\ resp.last[1].code = 200
        /\ resp.last[1].at = 3
        /\ resp.buckets[key].resetAt = 3 + key.windowMs
        /\ resp.buckets[key].tokens = 1

\* C29: simpleQuery answers every text with a sequence of rows and never
\* raises, a text made of whitespace included.
C29_QueryNeverRaises == resp.op # "none" => ~resp.error

====
